---- MODULE Spec2Model ----
(***************************************************************************)
(* Model of infra/docker_compose/init-kanidm-api.py: the Kanidm            *)
(* provisioning script.  One run of the script is a single asyncio task;   *)
(* the states of the model are the points where that task is suspended on  *)
(* a network await (a request has been issued and its response is          *)
(* pending), plus the start and the end of the process.  Each action is    *)
(* the code that runs between two suspensions: it handles the response of  *)
(* the pending request and either issues the next request or leaves        *)
(* main() through KanidmClient.__aexit__.  The server is the environment:  *)
(* every response is chosen nondeterministically.                          *)
(***************************************************************************)
EXTENDS Integers, Sequences, FiniteSets, TLC

\* How many times the script is run against the same server.
NumRuns == 2

\* ------------------------------------------------------------------------
\* Python values
\* ------------------------------------------------------------------------
None == "None"
PyTrue == "True"
PyFalse == "False"
\* A key that a JSON object (or the cookie jar) does not hold.
Absent == "<absent>"

\* Python truthiness of the values the script tests with `not x` / `if x`.
Truthy(v) == v \notin {None, "", Absent}

\* dict.get(key, default): the value when the key is present (whatever it
\* is, the empty string included), the default otherwise.
DictGet(field, default) == IF field = Absent THEN default ELSE field

\* ------------------------------------------------------------------------
\* The environment: the environment variable and the server's responses
\* ------------------------------------------------------------------------
Passwords == {"unset", "", "secret-pw"}

\* os.getenv("KANIDM_ADMIN_PASSWORD")
Getenv(p) == IF p = "unset" THEN None ELSE p

Statuses == {200, 201, 204, 409, 500}

Response(st, ok, sid, state, bearer, tok, cookie, secret) ==
    [status |-> st, bodyOK |-> ok, sessionid |-> sid, state |-> state,
     bearer |-> bearer, token |-> tok, cookie |-> cookie, secret |-> secret]

NoResponse == Response(0, TRUE, Absent, Absent, Absent, Absent, Absent, Absent)

\* Answers to the init step: a status, a body that can or cannot be decoded,
\* and a "sessionid" field that is missing, empty or set.
InitResponses ==
    { Response(st, ok, sid, Absent, Absent, Absent, Absent, Absent) :
        st \in Statuses, ok \in BOOLEAN, sid \in {Absent, "", "S1"} }

\* Answers to the credential step: the "state", "bearer" and "token" fields
\* of the body and the cookie named "bearer", each missing, empty or set.
CredResponses ==
    { Response(x[1], x[2], Absent, x[3], x[4], x[5], x[6], Absent) :
        x \in Statuses \X BOOLEAN \X {Absent, "continue", "success"}
              \X {Absent, "", "B1"} \X {Absent, "", "T1"} \X {Absent, "", "K1"} }

\* Answers to a provisioning request; only GET /v1/oauth2/{name} carries an
\* "oauth2_rs_basic_secret" field.
ProvResponses(op) ==
    { Response(st, ok, Absent, Absent, Absent, Absent, Absent, sec) :
        st \in Statuses, ok \in BOOLEAN,
        sec \in (IF op = "oauth2_get_secret" THEN {Absent, "", "SECRET"} ELSE {Absent}) }

\* ------------------------------------------------------------------------
\* KanidmClient: what each method does with the response it awaits
\* ------------------------------------------------------------------------
\* The outcome of the code that handles a response: it returns `value`, or
\* an exception leaves it (reading a body that cannot be decoded raises);
\* `aux` is the attribute or local the handler leaves behind (the session
\* identifier, self.token).
Return(v, a) == [raised |-> FALSE, value |-> v, aux |-> a]
Raise(a) == [raised |-> TRUE, value |-> None, aux |-> a]

\* Step 1 of authenticate with the check of the session identifier left out.
authenticate_init_nocheck(r) ==
    IF r.status # 200
    THEN IF r.bodyOK THEN Return(PyFalse, None) ELSE Raise(None)
    ELSE IF ~r.bodyOK THEN Raise(None)
    ELSE Return("continue", DictGet(r.sessionid, None))

\* authenticate, step 1: the response to {"step": {"init": username}}.
\* "continue" stands for falling through to step 2 with session_id = aux.
authenticate_init(r) ==
    IF r.status # 200
    THEN IF r.bodyOK THEN Return(PyFalse, None) ELSE Raise(None)
    ELSE IF ~r.bodyOK THEN Raise(None)
    ELSE LET session_id == DictGet(r.sessionid, None)
         IN  IF ~Truthy(session_id)
             THEN Return(PyFalse, None)
             ELSE Return("continue", session_id)

\* The token authenticate stores: data.get("bearer", data.get("token")),
\* then, when that is falsy, the value of the cookie whose key is "bearer".
StoredToken(r) ==
    LET fromBody == DictGet(r.bearer, DictGet(r.token, None))
    IN  IF ~Truthy(fromBody) /\ r.cookie # Absent THEN r.cookie ELSE fromBody

\* Step 2 of authenticate storing the token before it looks at the state.
authenticate_cred_early(r) ==
    IF r.status # 200
    THEN IF r.bodyOK THEN Return(PyFalse, None) ELSE Raise(None)
    ELSE IF ~r.bodyOK THEN Raise(None)
    ELSE IF DictGet(r.state, None) # "success" THEN Return(PyFalse, StoredToken(r))
    ELSE IF ~Truthy(StoredToken(r)) THEN Return(PyFalse, StoredToken(r))
    ELSE Return(PyTrue, StoredToken(r))

\* Step 2 of authenticate without the final check that a token was found.
authenticate_cred_unchecked(r) ==
    IF r.status # 200
    THEN IF r.bodyOK THEN Return(PyFalse, None) ELSE Raise(None)
    ELSE IF ~r.bodyOK THEN Raise(None)
    ELSE IF DictGet(r.state, None) # "success" THEN Return(PyFalse, None)
    ELSE Return(PyTrue, StoredToken(r))

\* authenticate, step 2: the response to the password; aux is self.token
\* when the method is left.
authenticate_cred(r) ==
    IF r.status # 200
    THEN IF r.bodyOK THEN Return(PyFalse, None) ELSE Raise(None)
    ELSE IF ~r.bodyOK THEN Raise(None)
    ELSE IF DictGet(r.state, None) # "success" THEN Return(PyFalse, None)
    ELSE IF ~Truthy(StoredToken(r)) THEN Return(PyFalse, StoredToken(r))
    ELSE Return(PyTrue, StoredToken(r))

\* oauth2_create reporting a status other than 200/201 as a failure.
oauth2_create_strict(r) ==
    IF ~r.bodyOK THEN Raise(None)
    ELSE IF r.status = 200 \/ r.status = 201 THEN Return(PyTrue, None)
    ELSE Return(PyFalse, None)

\* oauth2_create reads the body (resp.text()) before it looks at the status.
oauth2_create(r) ==
    IF ~r.bodyOK THEN Raise(None)
    ELSE IF r.status = 200 \/ r.status = 201 THEN Return(PyTrue, None)
    ELSE Return(PyTrue, None)

oauth2_add_redirect_url(r) ==
    IF r.status \in {200, 201, 204} THEN Return(PyTrue, None) ELSE Return(PyTrue, None)

oauth2_enable_pkce(r) ==
    IF r.status \in {200, 204} THEN Return(PyTrue, None) ELSE Return(PyTrue, None)

\* oauth2_update_scope_map reads the body only on a status it warns about.
oauth2_update_scope_map(r) ==
    IF r.status \in {200, 204} THEN Return(PyTrue, None)
    ELSE IF ~r.bodyOK THEN Raise(None)
    ELSE Return(PyTrue, None)

\* oauth2_get_secret raising on every status other than 200.
oauth2_get_secret_raising(r) ==
    IF r.status = 200
    THEN IF ~r.bodyOK THEN Raise(None)
         ELSE LET secret == DictGet(r.secret, None)
              IN  IF Truthy(secret) THEN Return(secret, None) ELSE Return(None, None)
    ELSE Raise(None)

\* oauth2_get_secret decodes the body (resp.json()) on status 200 only.
oauth2_get_secret(r) ==
    IF r.status = 200
    THEN IF ~r.bodyOK THEN Raise(None)
         ELSE LET secret == DictGet(r.secret, None)
              IN  IF Truthy(secret) THEN Return(secret, None) ELSE Return(None, None)
    ELSE Return(None, None)

group_create(r) ==
    IF r.status \in {200, 201} THEN Return(PyTrue, None) ELSE Return(PyTrue, None)

person_create(r) ==
    IF r.status \in {200, 201} THEN Return(PyTrue, None) ELSE Return(PyTrue, None)

group_add_members(r) ==
    IF r.status \in {200, 204} THEN Return(PyTrue, None) ELSE Return(PyTrue, None)

\* The method a provisioning call of main runs on its response.
Handle(op, r) ==
    CASE op = "oauth2_create"           -> oauth2_create(r)
      [] op = "oauth2_add_redirect_url" -> oauth2_add_redirect_url(r)
      [] op = "oauth2_enable_pkce"      -> oauth2_enable_pkce(r)
      [] op = "oauth2_update_scope_map" -> oauth2_update_scope_map(r)
      [] op = "oauth2_get_secret"       -> oauth2_get_secret(r)
      [] op = "group_create"            -> group_create(r)
      [] op = "person_create"           -> person_create(r)
      [] op = "group_add_members"       -> group_add_members(r)

\* ------------------------------------------------------------------------
\* main: the requests it issues, in program order
\* ------------------------------------------------------------------------
Call(op, client, group, arg) == [op |-> op, client |-> client, group |-> group, arg |-> arg]

\* The provisioning calls of main, in the order of its statements.
PROGRAM ==
    << Call("oauth2_create", "anthill", None, "http://localhost:5173"),
       Call("oauth2_add_redirect_url", "anthill", None, "http://localhost:5173/oauth/callback"),
       Call("oauth2_add_redirect_url", "anthill", None, "http://localhost:3000/oauth/callback"),
       Call("oauth2_add_redirect_url", "anthill", None, "https://app.example.com/oauth/callback"),
       Call("oauth2_enable_pkce", "anthill", None, None),
       Call("oauth2_update_scope_map", "anthill", "anthill_users", "email openid profile groups"),
       Call("oauth2_get_secret", "anthill", None, None),
       Call("group_create", None, "tenant_acme_users", None),
       Call("group_create", None, "tenant_acme_admins", None),
       Call("group_create", None, "tenant_globex_users", None),
       Call("group_create", None, "anthill_users", None),
       Call("person_create", None, None, "alice"),
       Call("person_create", None, None, "bob"),
       Call("person_create", None, None, "charlie"),
       Call("group_add_members", None, "tenant_acme_users", "alice bob"),
       Call("group_add_members", None, "tenant_acme_admins", "alice"),
       Call("group_add_members", None, "tenant_globex_users", "charlie"),
       Call("group_add_members", None, "anthill_users", "alice bob charlie") >>

\* A request on the wire: the call and the Authorization bearer it carries.
Request(call, bearer) ==
    [op |-> call.op, client |-> call.client, group |-> call.group,
     arg |-> call.arg, bearer |-> bearer]

AuthInitCall == Call("auth_init", None, None, "admin")
\* The credential step carries the session identifier in a header.
AuthCredCall(session_id) == Call("auth_cred", None, None, session_id)

\* The module-level check `if not ADMIN_PASSWORD` accepting an empty string.
PasswordMissingNoneOnly(p) == Getenv(p) = None

\* if not ADMIN_PASSWORD: ... sys.exit(1)
PasswordMissing(p) == ~Truthy(Getenv(p))

\* __aexit__ closing the session only when no exception is passing through.
ShouldCloseOnSuccessOnly(sess, how) == sess # None /\ how \in {"return0", "return1"}

\* __aexit__: `if self.session: await self.session.close()`
ShouldClose(sess, how) == sess # None

\* main returning 1 as soon as an awaited call returns a falsy value.
MainAbortsOnFalsy(value) == Truthy(value)

\* main awaits every provisioning call and never looks at what it returns.
MainContinues(value) == TRUE

\* The __main__ block: sys.exit(exit_code), 130 on KeyboardInterrupt, 1 on
\* any other exception.
ExitCode(how) ==
    CASE how = "return0"   -> 0
      [] how = "return1"   -> 1
      [] how = "interrupt" -> 130
      [] how = "exception" -> 1

\* ------------------------------------------------------------------------
\* State
\* ------------------------------------------------------------------------
VARIABLES
    run,          \* which run of the script this is (1..NumRuns)
    password,     \* the KANIDM_ADMIN_PASSWORD environment variable of this run
    pc,           \* where the process is: "start", suspended on a request, "exiting", "done"
    session,      \* KanidmClient.session: None, "open" or "closed"
    closes,       \* how many times session.close() was awaited in this run
    token,        \* KanidmClient.token
    idx,          \* the provisioning call of PROGRAM that is pending (0: none yet)
    requests,     \* the requests issued in this run, in order
    last,         \* the last request that was answered: the response and what the handler did
    secret,       \* main's local `secret`
    authResult,   \* how authenticate ended: "none", PyTrue, PyFalse, "raised", "interrupted"
    pending,      \* how main was left: "none", "return0", "return1", "exception", "interrupt"
    exitCode,     \* the exit code of the process (-1 while it runs)
    hit,          \* a network-level failure was hit in this run
    failedReq,    \* the number of the request that hit it (0: none)
    interrupted,  \* the run was interrupted from outside
    conflict,     \* some provisioning response of this run had a status outside 2xx
    prev          \* the summary of the previous run of the script

vars == << run, password, pc, session, closes, token, idx, requests, last, secret,
           authResult, pending, exitCode, hit, failedReq, interrupted, conflict, prev >>

Waits == {"auth_init_wait", "auth_cred_wait", "prov_wait"}

NoLast == [call |-> "none", idx |-> 0, resp |-> NoResponse, raised |-> FALSE, value |-> None]

Answered(call, i, r, o) ==
    [call |-> call, idx |-> i, resp |-> r, raised |-> o.raised, value |-> o.value]

\* What is on the wire of a request apart from the credential.
Wire(q) == [op |-> q.op, client |-> q.client, group |-> q.group, arg |-> q.arg]

NoRun == [valid |-> FALSE, requests |-> << >>, exitCode |-> -1, authOK |-> FALSE,
          hit |-> FALSE, interrupted |-> FALSE, conflict |-> FALSE]

Summary ==
    [valid |-> TRUE,
     requests |-> [i \in 1..Len(requests) |-> Wire(requests[i])],
     exitCode |-> exitCode, authOK |-> (authResult = PyTrue),
     hit |-> hit, interrupted |-> interrupted, conflict |-> conflict]

FreshRun ==
    /\ pc = "start"
    /\ session = None
    /\ closes = 0
    /\ token = None
    /\ idx = 0
    /\ requests = << >>
    /\ last = NoLast
    /\ secret = None
    /\ authResult = "none"
    /\ pending = "none"
    /\ exitCode = -1
    /\ hit = FALSE
    /\ failedReq = 0
    /\ interrupted = FALSE
    /\ conflict = FALSE

Init ==
    /\ run = 1
    /\ password \in Passwords
    /\ prev = NoRun
    /\ FreshRun

\* Control leaves the `async with` block of main: __aexit__ runs, and the
\* process is about to end the way `how` says.
Leave(how) ==
    /\ pending' = how
    /\ pc' = "exiting"
    /\ IF ShouldClose(session, how)
       THEN session' = "closed" /\ closes' = closes + 1
       ELSE UNCHANGED << session, closes >>

\* Module level and the head of main: the password check, __aenter__, and
\* authenticate up to its first await.
Start ==
    /\ pc = "start"
    /\ IF PasswordMissing(password)
       THEN /\ pc' = "done"
            /\ exitCode' = 1
            /\ UNCHANGED << session, requests >>
       ELSE /\ session' = "open"
            /\ requests' = << Request(AuthInitCall, None) >>
            /\ pc' = "auth_init_wait"
            /\ UNCHANGED exitCode
    /\ UNCHANGED << run, password, closes, token, idx, last, secret, authResult,
                    pending, hit, failedReq, interrupted, conflict, prev >>

\* The init step is answered.
AuthInitRecv ==
    /\ pc = "auth_init_wait"
    /\ \E r \in InitResponses :
         LET o == authenticate_init(r) IN
         /\ last' = Answered("auth_init", 0, r, o)
         /\ IF o.raised
            THEN /\ authResult' = "raised"
                 /\ hit' = (hit \/ ~r.bodyOK)
                 /\ failedReq' = IF r.bodyOK THEN failedReq ELSE Len(requests)
                 /\ Leave("exception")
                 /\ UNCHANGED requests
            ELSE IF o.value = "continue"
            THEN /\ requests' = Append(requests, Request(AuthCredCall(o.aux), None))
                 /\ pc' = "auth_cred_wait"
                 /\ UNCHANGED << authResult, hit, failedReq, pending, session, closes >>
            ELSE /\ authResult' = PyFalse
                 /\ Leave("return1")
                 /\ UNCHANGED << requests, hit, failedReq >>
    /\ UNCHANGED << run, password, token, idx, secret, exitCode, interrupted,
                    conflict, prev >>

\* The credential step is answered; on success main goes on to its first
\* provisioning call.
AuthCredRecv ==
    /\ pc = "auth_cred_wait"
    /\ \E r \in CredResponses :
         LET o == authenticate_cred(r) IN
         /\ last' = Answered("auth_cred", 0, r, o)
         /\ token' = o.aux
         /\ IF o.raised
            THEN /\ authResult' = "raised"
                 /\ hit' = (hit \/ ~r.bodyOK)
                 /\ failedReq' = IF r.bodyOK THEN failedReq ELSE Len(requests)
                 /\ Leave("exception")
                 /\ UNCHANGED << requests, idx >>
            ELSE IF o.value = PyTrue
            THEN /\ authResult' = PyTrue
                 /\ idx' = 1
                 /\ requests' = Append(requests, Request(PROGRAM[1], token'))
                 /\ pc' = "prov_wait"
                 /\ UNCHANGED << hit, failedReq, pending, session, closes >>
            ELSE /\ authResult' = PyFalse
                 /\ Leave("return1")
                 /\ UNCHANGED << requests, idx, hit, failedReq >>
    /\ UNCHANGED << run, password, secret, exitCode, interrupted, conflict, prev >>

\* The pending provisioning call is answered; main goes on to the next call
\* or, after the last one, returns 0.
ProvRecv ==
    /\ pc = "prov_wait"
    /\ \E r \in ProvResponses(PROGRAM[idx].op) :
         LET op == PROGRAM[idx].op
             o  == Handle(op, r)
         IN
         /\ last' = Answered("prov", idx, r, o)
         /\ conflict' = (conflict \/ r.status \notin {200, 201, 204})
         /\ secret' = IF op = "oauth2_get_secret" /\ ~o.raised THEN o.value ELSE secret
         /\ IF o.raised
            THEN /\ hit' = (hit \/ ~r.bodyOK)
                 /\ failedReq' = IF r.bodyOK THEN failedReq ELSE Len(requests)
                 /\ Leave("exception")
                 /\ UNCHANGED << requests, idx >>
            ELSE IF ~MainContinues(o.value)
            THEN /\ Leave("return1")
                 /\ UNCHANGED << requests, idx, hit, failedReq >>
            ELSE IF idx < Len(PROGRAM)
            THEN /\ idx' = idx + 1
                 /\ requests' = Append(requests, Request(PROGRAM[idx + 1], token))
                 /\ UNCHANGED << pc, hit, failedReq, pending, session, closes >>
            ELSE /\ Leave("return0")
                 /\ UNCHANGED << requests, idx, hit, failedReq >>
    /\ UNCHANGED << run, password, token, authResult, exitCode, interrupted, prev >>

\* The pending request fails below HTTP (connection refused, timeout): the
\* await raises and the exception leaves main.
NetFail ==
    /\ pc \in Waits
    /\ hit' = TRUE
    /\ failedReq' = Len(requests)
    /\ authResult' = IF pc = "prov_wait" THEN authResult ELSE "raised"
    /\ Leave("exception")
    /\ UNCHANGED << run, password, token, idx, requests, last, secret, exitCode,
                    interrupted, conflict, prev >>

\* The process is interrupted (SIGINT) while it waits for a response.
Interrupt ==
    /\ pc \in Waits
    /\ interrupted' = TRUE
    /\ authResult' = IF pc = "prov_wait" THEN authResult ELSE "interrupted"
    /\ Leave("interrupt")
    /\ UNCHANGED << run, password, token, idx, requests, last, secret, exitCode,
                    hit, failedReq, conflict, prev >>

\* The __main__ block turns the way main was left into the exit code.
ProcessExit ==
    /\ pc = "exiting"
    /\ exitCode' = ExitCode(pending)
    /\ pc' = "done"
    /\ UNCHANGED << run, password, session, closes, token, idx, requests, last,
                    secret, authResult, pending, hit, failedReq, interrupted,
                    conflict, prev >>

\* The script is started again against the same server.
NextRun ==
    /\ pc = "done"
    /\ run < NumRuns
    /\ run' = run + 1
    /\ prev' = Summary
    /\ password' \in Passwords
    /\ pc' = "start"
    /\ session' = None
    /\ closes' = 0
    /\ token' = None
    /\ idx' = 0
    /\ requests' = << >>
    /\ last' = NoLast
    /\ secret' = None
    /\ authResult' = "none"
    /\ pending' = "none"
    /\ exitCode' = -1
    /\ hit' = FALSE
    /\ failedReq' = 0
    /\ interrupted' = FALSE
    /\ conflict' = FALSE

Next ==
    \/ Start
    \/ AuthInitRecv
    \/ AuthCredRecv
    \/ ProvRecv
    \/ NetFail
    \/ Interrupt
    \/ ProcessExit
    \/ NextRun

Spec == Init /\ [][Next]_vars

TypeOK ==
    /\ run \in 1..NumRuns
    /\ password \in Passwords
    /\ pc \in {"start", "exiting", "done"} \cup Waits
    /\ session \in {None, "open", "closed"}
    /\ idx \in 0..Len(PROGRAM)
    /\ exitCode \in {-1, 0, 1, 130}

\* ------------------------------------------------------------------------
\* Properties
\* ------------------------------------------------------------------------
Ended == pc = "done"

AuthFailed == authResult \in {PyFalse, "raised"}

\* The provisioning requests of this run: everything after the two
\* handshake requests.
NumHandshake == Len(<< "init", "cred" >>)
ProvCount == IF Len(requests) > NumHandshake THEN Len(requests) - NumHandshake ELSE 0
ProvReq(i) == requests[NumHandshake + i]

Mutating ==
    {"oauth2_create", "oauth2_add_redirect_url", "oauth2_enable_pkce",
     "oauth2_update_scope_map", "group_create", "person_create", "group_add_members"}

\* The last answered request was the mutating provisioning call number j.
MutatingAnswered(j) ==
    /\ last.call = "prov"
    /\ last.idx = j
    /\ PROGRAM[j].op \in Mutating
    /\ last.resp.status \in Statuses

\* main went on to the request after call j (after the last call there is
\* none, and main returns 0).
WentOn(j) ==
    IF j < Len(PROGRAM)
    THEN /\ ProvCount >= j + 1
         /\ ProvReq(j + 1) = Request(PROGRAM[j + 1], token)
    ELSE pending = "return0"

\* The handler of call j awaits the body of the response it got.
ReadsBody(j) ==
    \/ PROGRAM[j].op = "oauth2_create"
    \/ PROGRAM[j].op = "oauth2_update_scope_map" /\ last.resp.status \notin {200, 204}

\* C1 as stated: whatever status a mutating provisioning call is answered
\* with, the call returns True and main issues the next request.
C1_AnyStatusReturnsTrue ==
    \A j \in 1..Len(PROGRAM) :
        MutatingAnswered(j) =>
            /\ ~last.raised
            /\ last.value = PyTrue
            /\ WentOn(j)

\* C1, amended: the same, provided the body of the response can be decoded
\* where the call reads it (oauth2_create always, oauth2_update_scope_map on
\* a status other than 200/204); after the last call main returns 0.
C1_AnyStatusReturnsTrueIfBodyReadable ==
    \A j \in 1..Len(PROGRAM) :
        (MutatingAnswered(j) /\ (ReadsBody(j) => last.resp.bodyOK)) =>
            /\ ~last.raised
            /\ last.value = PyTrue
            /\ WentOn(j)

C1_Witness ==
    /\ MutatingAnswered(1)
    /\ last.resp.status = 409
    /\ last.resp.bodyOK
    /\ last.value = PyTrue
    /\ ProvCount = 2
    /\ ProvReq(2).op = "oauth2_add_redirect_url"

\* The token C2 expects: the body field `bearer` if it carries a value,
\* otherwise `token` if it carries a value, otherwise the `bearer` cookie.
ExpectedToken(r) ==
    IF Truthy(r.bearer) THEN r.bearer
    ELSE IF Truthy(r.token) THEN r.token
    ELSE r.cookie

\* C2: after a handshake whose second step answers 200 with state
\* "success", authenticate stores the first of bearer field, token field
\* and bearer cookie that carries a value, and fails only when none does.
C2_TokenIsFirstValueCarried ==
    (/\ last.call = "auth_cred"
     /\ last.resp.status = 200
     /\ last.resp.bodyOK
     /\ last.resp.state = "success") =>
        IF Truthy(ExpectedToken(last.resp))
        THEN authResult = PyTrue /\ token = ExpectedToken(last.resp)
        ELSE authResult = PyFalse

\* C3: an init response with a status other than 200, or without a session
\* identifier, makes authenticate fail, and the credential step is not sent.
C3_BadInitStopsHandshake ==
    (/\ last.call = "auth_init"
     /\ (last.resp.status # 200 \/ ~Truthy(last.resp.sessionid))) =>
        /\ AuthFailed
        /\ pc \in {"exiting", "done"}
        /\ \A i \in 1..Len(requests) : requests[i].op # "auth_cred"

C3_Witness ==
    /\ last.call = "auth_init"
    /\ last.resp.status = 200
    /\ last.resp.bodyOK
    /\ last.resp.sessionid = Absent
    /\ authResult = PyFalse
    /\ Ended
    /\ Len(requests) = 1

\* C4: a credential response with a status other than 200, or a state other
\* than "success", makes authenticate fail and leaves the token unset,
\* whatever token the response carries.
C4_BadCredLeavesTokenUnset ==
    (/\ last.call = "auth_cred"
     /\ (last.resp.status # 200 \/ last.resp.state # "success")) =>
        /\ AuthFailed
        /\ token = None
        /\ ProvCount = 0

C4_Witness ==
    /\ last.call = "auth_cred"
    /\ last.resp.status = 200
    /\ last.resp.bodyOK
    /\ last.resp.state = "continue"
    /\ last.resp.bearer = "B1"
    /\ last.resp.cookie = "K1"
    /\ authResult = PyFalse
    /\ token = None
    /\ Ended

\* C5: with the password variable unset or empty the process ends with
\* exit code 1, issues no request and opens no connection pool.
C5_NoPasswordNoNetwork ==
    password \in {"unset", ""} =>
        /\ requests = << >>
        /\ session = None
        /\ closes = 0
        /\ pc \in {"start", "done"}
        /\ Ended => exitCode = 1

C5_Witness ==
    /\ password = ""
    /\ Ended
    /\ exitCode = 1
    /\ requests = << >>

\* Both the previous and this run authenticated and hit no network-level
\* failure.
BothRunsClean ==
    /\ Ended
    /\ prev.valid
    /\ prev.authOK
    /\ authResult = PyTrue
    /\ ~prev.hit
    /\ ~hit

SameOutcome ==
    /\ prev.exitCode = 0
    /\ exitCode = 0
    /\ Summary.requests = prev.requests

\* C6 as stated: two runs that authenticate and hit no network-level
\* failure issue the same requests and both end with exit code 0.
C6_RerunSameOutcome == BothRunsClean => SameOutcome

\* C6, amended: the same, provided neither run is interrupted.
C6_RerunSameOutcomeUnlessInterrupted ==
    (BothRunsClean /\ ~prev.interrupted /\ ~interrupted) => SameOutcome

C6_Witness ==
    /\ BothRunsClean
    /\ ~prev.conflict
    /\ conflict
    /\ last.resp.status = 409
    /\ SameOutcome
    /\ Len(prev.requests) = NumHandshake + Len(PROGRAM)

\* C7 as stated: after authentication succeeded the run ends with a
\* non-zero exit code (1) exactly when a request hit a network-level
\* failure, no request follows the failing one, and otherwise it ends with 0.
C7_NonZeroIffNetworkFailure ==
    (Ended /\ authResult = PyTrue) =>
        /\ exitCode # 0 <=> hit
        /\ hit => (exitCode = 1 /\ Len(requests) = failedReq)
        /\ ~hit => exitCode = 0

\* C7, amended: the same for every run that is not interrupted; an
\* interrupted run ends with exit code 130.
C7_ExitCodeAfterAuth ==
    (Ended /\ authResult = PyTrue) =>
        /\ exitCode = 1 <=> hit
        /\ exitCode = 130 <=> interrupted
        /\ hit => Len(requests) = failedReq
        /\ (~hit /\ ~interrupted) =>
               (exitCode = 0 /\ Len(requests) = NumHandshake + Len(PROGRAM))

C7_Witness ==
    /\ Ended
    /\ authResult = PyTrue
    /\ hit
    /\ last.call = "prov"
    /\ last.raised
    /\ PROGRAM[last.idx].op = "oauth2_get_secret"
    /\ exitCode = 1
    /\ ProvCount = last.idx

\* C8: a run that opened the connection pool closes it exactly once, and
\* before the process ends, on every way out of main.
C8_PoolClosedOnce ==
    /\ closes <= 1
    /\ pc \in Waits => (session = "open" /\ closes = 0)
    /\ (pc \in {"exiting", "done"} /\ session # None) =>
           (session = "closed" /\ closes = 1)

C8_Witness ==
    /\ Ended
    /\ interrupted
    /\ session = "closed"
    /\ closes = 1
    /\ exitCode = 130

\* The step of the fixed order a provisioning request belongs to.
Stage(op) ==
    CASE op = "oauth2_create"           -> 1
      [] op = "oauth2_add_redirect_url" -> 2
      [] op = "oauth2_enable_pkce"      -> 3
      [] op = "oauth2_update_scope_map" -> 4
      [] op = "oauth2_get_secret"       -> 5
      [] op = "group_create"            -> 6
      [] op = "person_create"           -> 7
      [] op = "group_add_members"       -> 8

\* C9: the provisioning requests go out in the fixed order, the create
\* request of the OAuth2 client precedes every request on its
\* sub-resources, and the create request of each group precedes every
\* request that names that group.
C9_CreateBeforeUse ==
    /\ \A i, j \in 1..ProvCount :
           i < j => Stage(ProvReq(i).op) <= Stage(ProvReq(j).op)
    /\ \A i \in 1..ProvCount :
           (ProvReq(i).client # None /\ ProvReq(i).op # "oauth2_create") =>
               \E j \in 1..(i - 1) :
                   /\ ProvReq(j).op = "oauth2_create"
                   /\ ProvReq(j).client = ProvReq(i).client
    /\ \A i \in 1..ProvCount :
           (ProvReq(i).group # None /\ ProvReq(i).op # "group_create") =>
               \E j \in 1..(i - 1) :
                   /\ ProvReq(j).op = "group_create"
                   /\ ProvReq(j).group = ProvReq(i).group

\* C10: provisioning requests are issued only after authenticate returned
\* True with a non-empty token, all of them carry that token, and a run
\* whose authentication failed issues none and ends with exit code 1.
C10_ProvisioningNeedsToken ==
    /\ ProvCount > 0 => (authResult = PyTrue /\ Truthy(token))
    /\ \A i \in 1..ProvCount : ProvReq(i).bearer = token
    /\ authResult # PyTrue => ProvCount = 0
    /\ (Ended /\ AuthFailed) => exitCode = 1

C10_Witness ==
    /\ Ended
    /\ authResult = PyFalse
    /\ last.call = "auth_cred"
    /\ last.resp.state = "success"
    /\ ~Truthy(token)
    /\ ProvCount = 0
    /\ exitCode = 1

====
